---- MODULE Spec2Model ----
(***************************************************************************)
(* Model of the quick_task bulletin board (src/main.py, QuickTaskPlugin).  *)
(*                                                                         *)
(* Text is a sequence of one-character strings.  The CJK characters of the *)
(* command aliases are written in pinyin, one element per character:       *)
(*   "fa","bu","ren","wu" = the four characters of the alias at            *)
(*   src/main.py:73, "sou","suo" = the two characters of src/main.py:168.  *)
(* The durable file is a sequence of JSON tokens.                          *)
(* The clock (time.time()) is an input that never runs backwards: every    *)
(* handler runs at an instant now >= clock, and clock is then the instant  *)
(* at which that handler finished.                                         *)
(* Spec, SpecEmpty and SpecLoad run each handler as one step.  SpecAsync   *)
(* runs publish_task as the coroutine it is, from one suspension point to  *)
(* the next, so that handlers overlap.                                     *)
(***************************************************************************)
EXTENDS Integers, Sequences, FiniteSets, TLC

VARIABLES
    tasks,        \* self.tasks: the in-memory list of task dicts
    file,         \* DATA_FILE: [exists, text], text a sequence of JSON tokens
    clock,        \* the instant (time.time()) at which the last handler finished
    reply,        \* what the last handler did and yielded
    lastPublish,  \* history: per sender, create_time of the sender's latest
                  \* successful publish not since deleted by the sender; -1 if none
    pending       \* the publish_task coroutines that have started and not ended,
                  \* in the order they started: where each one is suspended, and
                  \* its local variables

vars == <<tasks, file, clock, reply, lastPublish, pending>>

(***************************************************************************)
(* Program constants and the bounds of the model.                          *)
(***************************************************************************)
EXPIRATION_SECONDS == 30 * 60

MaxEpoch == 1    \* the clock runs up to MaxEpoch expiration periods (+1 s)

\* The senders of events: get_sender_id() and get_sender_name().
Senders == {[id |-> "u1", name |-> "Ann"], [id |-> "u2", name |-> "Bob"]}
Users == {s.id : s \in Senders}
Whitespace == {" "}

\* The instants the clock takes: within a second of a multiple of the TTL.
Times ==
    {t \in 0..(MaxEpoch * EXPIRATION_SECONDS + 1) :
        \E k \in 0..MaxEpoch : \E j \in {-1, 0, 1} : t = k * EXPIRATION_SECONDS + j}

\* The text a message carries after its command alias: nothing, blanks,
\* and words that differ in case, order and surrounding blanks.
Bodies ==
    { <<>>, <<" ">>, <<" ", " ">>,
      <<"a">>, <<" ", "A">>, <<" ", "a", " ">>,
      <<" ", "a", "A">>, <<"A", "a", " ">> }

(***************************************************************************)
(* Text helpers: str.strip, str.startswith, the "in" operator on str.      *)
(***************************************************************************)
RECURSIVE lstrip(_)
lstrip(s) ==
    IF s # <<>> /\ Head(s) \in Whitespace THEN lstrip(Tail(s)) ELSE s

RECURSIVE rstrip(_)
rstrip(s) ==
    IF s # <<>> /\ s[Len(s)] \in Whitespace THEN rstrip(SubSeq(s, 1, Len(s) - 1)) ELSE s

\* Variant: nothing is trimmed.
strip_nothing(s) == s

strip(s) == rstrip(lstrip(s))

startswith(s, prefix) ==
    Len(s) >= Len(prefix) /\ SubSeq(s, 1, Len(prefix)) = prefix

\* Variant: the keyword is only looked for at the start of the content.
contains_at_start(content, keyword) == startswith(content, keyword)

\* keyword in content
contains(content, keyword) ==
    \E i \in 0..(Len(content) - Len(keyword)) :
        SubSeq(content, i + 1, i + Len(keyword)) = keyword

\* for prefix in prefixes: if cmd_str.startswith(prefix): ...; break / else: fallback
RECURSIVE remove_prefix(_, _, _)
remove_prefix(cmd_str, prefixes, fallback) ==
    IF prefixes = <<>> THEN fallback
    ELSE IF startswith(cmd_str, Head(prefixes))
         THEN strip(SubSeq(cmd_str, Len(Head(prefixes)) + 1, Len(cmd_str)))
         ELSE remove_prefix(cmd_str, Tail(prefixes), fallback)

PublishPrefixes ==
    << <<"fa", "bu", "ren", "wu">>, <<"fa", "bu">>, <<"p", "u", "b">>, <<"t", "a", "s", "k">> >>

SearchPrefixes ==
    << <<"sou", "suo", "ren", "wu">>, <<"sou", "suo">>, <<"f", "i", "n", "d">>,
       <<"q", "u", "e", "r", "y">> >>

publish_content(message_str) ==
    LET cmd_str == strip(message_str)
    IN  remove_prefix(cmd_str, PublishPrefixes, cmd_str)

search_keyword(message_str) ==
    LET cmd_str == strip(message_str)
    IN  remove_prefix(cmd_str, SearchPrefixes, <<>>)

\* The messages the dispatcher hands to a handler: an alias, then the text.
MessagesOf(prefixes) ==
    {prefixes[i] \o b : i \in 1..Len(prefixes), b \in Bodies}

PublishMessages == MessagesOf(PublishPrefixes)
SearchMessages == MessagesOf(SearchPrefixes)

\* What the handlers extract from those messages (computed once).
PublishContents == {publish_content(m) : m \in PublishMessages}
SearchKeywords == {search_keyword(m) : m \in SearchMessages}

(***************************************************************************)
(* Tasks and the JSON file.                                                *)
(***************************************************************************)
Task(content, publisher, publisher_id, create_time) ==
    [content |-> content, publisher |-> publisher,
     publisher_id |-> publisher_id, create_time |-> create_time]

Tok(tok, txt, atom, num) == [tok |-> tok, txt |-> txt, atom |-> atom, num |-> num]
Punct(p) == Tok(p, <<>>, "", 0)
Key(k) == Tok("key", <<>>, k, 0)

\* Variant: the sender id is written in place of the display name.
dump_task_id_as_name(t) ==
    << Punct("{"),
       Key("content"), Tok("text", t.content, "", 0),
       Key("publisher"), Tok("atom", <<>>, t.publisher_id, 0),
       Key("publisher_id"), Tok("atom", <<>>, t.publisher_id, 0),
       Key("create_time"), Tok("int", <<>>, "", t.create_time),
       Punct("}") >>

dump_task(t) ==
    << Punct("{"),
       Key("content"), Tok("text", t.content, "", 0),
       Key("publisher"), Tok("atom", <<>>, t.publisher, 0),
       Key("publisher_id"), Tok("atom", <<>>, t.publisher_id, 0),
       Key("create_time"), Tok("int", <<>>, "", t.create_time),
       Punct("}") >>

RECURSIVE dump_items(_)
dump_items(ts) ==
    IF ts = <<>> THEN <<>> ELSE dump_task(Head(ts)) \o dump_items(Tail(ts))

\* json.dump(self.tasks, f, ...): the text of the whole list
json_dump(ts) == <<Punct("[")>> \o dump_items(ts) \o <<Punct("]")>>

\* The dict under construction before any pair is read.
NoTask == Task(<<>>, "", "", -1)

\* One "key": value pair read into the dict under construction.
set_pair(obj, k, v) ==
    IF k.atom = "content" /\ v.tok = "text" THEN [obj EXCEPT !.content = v.txt]
    ELSE IF k.atom = "publisher" /\ v.tok = "atom" THEN [obj EXCEPT !.publisher = v.atom]
    ELSE IF k.atom = "publisher_id" /\ v.tok = "atom" THEN [obj EXCEPT !.publisher_id = v.atom]
    ELSE IF k.atom = "create_time" /\ v.tok = "int" THEN [obj EXCEPT !.create_time = v.num]
    ELSE obj

\* Reads the pairs of one object from position i (after its "{").
\* [ok, obj, next]: ok is FALSE where the decoder raises.
RECURSIVE parse_object(_, _, _)
parse_object(text, i, obj) ==
    IF i > Len(text) THEN [ok |-> FALSE, obj |-> obj, next |-> i]
    ELSE IF text[i].tok = "}" THEN [ok |-> TRUE, obj |-> obj, next |-> i + 1]
    ELSE IF text[i].tok = "key" /\ i + 1 <= Len(text)
               /\ text[i + 1].tok \in {"text", "atom", "int"}
         THEN parse_object(text, i + 2, set_pair(obj, text[i], text[i + 1]))
         ELSE [ok |-> FALSE, obj |-> obj, next |-> i]

\* Reads the elements of the list from position i (after its "[").
RECURSIVE parse_items(_, _, _)
parse_items(text, i, acc) ==
    IF i > Len(text) THEN [ok |-> FALSE, value |-> <<>>]
    ELSE IF text[i].tok = "]" THEN [ok |-> i = Len(text), value |-> acc]
    ELSE IF text[i].tok = "{"
         THEN LET o == parse_object(text, i + 1, NoTask)
              IN  IF o.ok THEN parse_items(text, o.next, Append(acc, o.obj))
                  ELSE [ok |-> FALSE, value |-> <<>>]
         ELSE [ok |-> FALSE, value |-> <<>>]

\* json.load(f): ok is FALSE where it raises (empty or malformed text)
json_load(text) ==
    IF text # <<>> /\ text[1].tok = "["
    THEN parse_items(text, 2, <<>>)
    ELSE [ok |-> FALSE, value |-> <<>>]

NoFile == [exists |-> FALSE, text |-> <<>>]

load_data(f) ==
    IF f.exists
    THEN LET r == json_load(f.text) IN IF r.ok THEN r.value ELSE <<>>
    ELSE <<>>

save_data(ts) == [exists |-> TRUE, text |-> json_dump(ts)]

\* Variant: a task of age exactly EXPIRATION_SECONDS is still valid.
valid_tasks_inclusive(ts, now) ==
    SelectSeq(ts, LAMBDA t : (now - t.create_time) <= EXPIRATION_SECONDS)

\* valid_tasks = [t for t in self.tasks if (now - t['create_time']) < EXPIRATION_SECONDS]
valid_tasks(ts, now) ==
    SelectSeq(ts, LAMBDA t : (now - t.create_time) < EXPIRATION_SECONDS)

\* Variant: the sweep runs a second late, against now - 1.
clean_expired_late(ts, f, now) ==
    LET valid == valid_tasks(ts, now - 1)
    IN  IF Len(valid) # Len(ts)
        THEN [tasks |-> valid, file |-> save_data(valid), saved |-> TRUE]
        ELSE [tasks |-> ts, file |-> f, saved |-> FALSE]

\* Variant: the sweep saves whether or not it removed a task.
clean_expired_always_saves(ts, f, now) ==
    [tasks |-> valid_tasks(ts, now), file |-> save_data(valid_tasks(ts, now)),
     saved |-> TRUE]

\* Variant: the sweep drops the expired tasks but does not save.
clean_expired_unsaved(ts, f, now) ==
    [tasks |-> valid_tasks(ts, now), file |-> f, saved |-> FALSE]

\* clean_expired: the store and file it leaves, and whether it saved
clean_expired(ts, f, now) ==
    LET valid == valid_tasks(ts, now)
    IN  IF Len(valid) # Len(ts)
        THEN [tasks |-> valid, file |-> save_data(valid), saved |-> TRUE]
        ELSE [tasks |-> ts, file |-> f, saved |-> FALSE]

(***************************************************************************)
(* What DATA_FILE may hold when the plugin is constructed: nothing, text   *)
(* json.load rejects, or a list of tasks (written by this program, by an   *)
(* earlier version of it, or by hand).                                     *)
(***************************************************************************)
FileTasks ==
    { <<>>,
      << Task(<<"a">>, "Ann", "u1", 0) >>,
      << Task(<<"a", "A">>, "Ann", "u1", 1), Task(<<"A">>, "Bob", "u2", 0) >>,
      << Task(<<"a">>, "Ann", "u1", 0), Task(<<"A">>, "Bob", "u2", 0),
         Task(<<"A", "a">>, "Ann", "u1", 1) >> }

Truncated(text) == SubSeq(text, 1, Len(text) - 1)

InitFiles ==
    {NoFile, [exists |-> TRUE, text |-> <<>>]}
        \cup {save_data(ts) : ts \in FileTasks}
        \cup {[exists |-> TRUE, text |-> Truncated(json_dump(ts))] : ts \in FileTasks}

\* Files that are valid JSON but hold no task list: a list whose one object
\* has no "create_time" key (written by hand or by another program).
WrongShapeFiles ==
    { [exists |-> TRUE,
       text |-> <<Punct("[")>>
                    \o SubSeq(dump_task(Task(<<"a">>, "Ann", "u1", 0)), 1, 7)
                    \o <<Punct("}"), Punct("]")>>] }

LoadFiles == InitFiles \cup WrongShapeFiles

(***************************************************************************)
(* The handlers.  reply records the handler that ran last: its command,    *)
(* its sender, its argument after alias removal, the outcome, the tasks it *)
(* showed or returned, and whether it called save_data.                    *)
(***************************************************************************)
Reply(op, kind, user_id, arg, shown, overwritten, saved) ==
    [op |-> op, kind |-> kind, user_id |-> user_id, arg |-> arg, tasks |-> shown,
     overwritten |-> overwritten, saved |-> saved]

\* Variant: the sender's earlier task is not removed.
others_tasks_kept(ts, user_id) == ts

\* self.tasks = [t for t in self.tasks if t['publisher_id'] != user_id]
others_tasks(ts, user_id) ==
    SelectSeq(ts, LAMBDA t : t.publisher_id # user_id)

\* for t in self.tasks: if t['publisher_id'] == user_id: target = t; break
\* The position of target, 0 for None.
find_target(ts, user_id) ==
    IF \E i \in 1..Len(ts) : ts[i].publisher_id = user_id
    THEN CHOOSE i \in 1..Len(ts) :
            /\ ts[i].publisher_id = user_id
            /\ \A j \in 1..(i - 1) : ts[j].publisher_id # user_id
    ELSE 0

\* list.remove(x): drops the first element equal to x
remove(ts, x) ==
    LET i == CHOOSE k \in 1..Len(ts) : ts[k] = x /\ \A j \in 1..(k - 1) : ts[j] # x
    IN  SubSeq(ts, 1, i - 1) \o SubSeq(ts, i + 1, Len(ts))

\* matched = [t for t in self.tasks if keyword in t['content']]
matched_tasks(ts, keyword) ==
    SelectSeq(ts, LAMBDA t : contains(t.content, keyword))

\* t['create_time'] in clean_expired raises KeyError: a loaded dict lacks the key.
key_error(ts) ==
    \E i \in 1..Len(ts) : ts[i].create_time = NoTask.create_time

\* The handler ends with the exception: nothing is assigned, nothing is yielded.
Raised(ts, f, op, user_id, arg) ==
    [tasks |-> ts, file |-> f,
     reply |-> Reply(op, "KeyError", user_id, arg, <<>>, FALSE, FALSE)]

\* Each handler is a function of the store, the file and the event; it gives
\* the store and file it leaves and its reply.

\* Variant: the file is saved before the new task is appended.
publish_task_saved_early(ts, f, user_id, user_name, content, now, t2) ==
    IF content = <<>>
    THEN [tasks |-> ts, file |-> f,
          reply |-> Reply("publish", "EmptyContent", user_id, content, <<>>, FALSE, FALSE)]
    ELSE LET c == clean_expired(ts, f, now)
             kept == others_tasks(c.tasks, user_id)
             new_task == Task(content, user_name, user_id, t2)
         IN  [tasks |-> Append(kept, new_task),
              file |-> save_data(kept),
              reply |-> Reply("publish", "published", user_id, content, <<new_task>>,
                              Len(kept) < Len(c.tasks), TRUE)]

\* Variant: publish does not sweep.
publish_task_unswept(ts, f, user_id, user_name, content, now, t2) ==
    IF content = <<>>
    THEN [tasks |-> ts, file |-> f,
          reply |-> Reply("publish", "EmptyContent", user_id, content, <<>>, FALSE, FALSE)]
    ELSE LET kept == others_tasks(ts, user_id)
             new_task == Task(content, user_name, user_id, t2)
         IN  [tasks |-> Append(kept, new_task),
              file |-> save_data(Append(kept, new_task)),
              reply |-> Reply("publish", "published", user_id, content, <<new_task>>,
                              Len(kept) < Len(ts), TRUE)]

\* Variant: the new task is put at the head of the list.
publish_task_prepends(ts, f, user_id, user_name, content, now, t2) ==
    IF content = <<>>
    THEN [tasks |-> ts, file |-> f,
          reply |-> Reply("publish", "EmptyContent", user_id, content, <<>>, FALSE, FALSE)]
    ELSE LET c == clean_expired(ts, f, now)
             kept == others_tasks(c.tasks, user_id)
             new_task == Task(content, user_name, user_id, t2)
         IN  [tasks |-> <<new_task>> \o kept,
              file |-> save_data(<<new_task>> \o kept),
              reply |-> Reply("publish", "published", user_id, content, <<new_task>>,
                              Len(kept) < Len(c.tasks), TRUE)]

\* Variant: original_count is taken before the sweep.
publish_task_counts_early(ts, f, user_id, user_name, content, now, t2) ==
    IF content = <<>>
    THEN [tasks |-> ts, file |-> f,
          reply |-> Reply("publish", "EmptyContent", user_id, content, <<>>, FALSE, FALSE)]
    ELSE LET c == clean_expired(ts, f, now)
             kept == others_tasks(c.tasks, user_id)
             new_task == Task(content, user_name, user_id, t2)
         IN  [tasks |-> Append(kept, new_task),
              file |-> save_data(Append(kept, new_task)),
              reply |-> Reply("publish", "published", user_id, content, <<new_task>>,
                              Len(kept) < Len(ts), TRUE)]

\* content is what lines 85-92 extract from event.message_str; now and t2 are
\* the two readings of time.time() (in clean_expired, and for create_time).
publish_task(ts, f, user_id, user_name, content, now, t2) ==
    IF content = <<>>
    THEN [tasks |-> ts, file |-> f,
          reply |-> Reply("publish", "EmptyContent", user_id, content, <<>>, FALSE, FALSE)]
    ELSE IF key_error(ts) THEN Raised(ts, f, "publish", user_id, content)
    ELSE LET c == clean_expired(ts, f, now)
             kept == others_tasks(c.tasks, user_id)
             overwritten == Len(kept) < Len(c.tasks)
             new_task == Task(content, user_name, user_id, t2)
         IN  [tasks |-> Append(kept, new_task),
              file |-> save_data(Append(kept, new_task)),
              reply |-> Reply("publish", "published", user_id, content, <<new_task>>,
                              overwritten, TRUE)]

delete_task(ts, f, user_id, now) ==
    LET c == clean_expired(ts, f, now)
        target == find_target(c.tasks, user_id)
    IN  IF key_error(ts) THEN Raised(ts, f, "delete", user_id, <<>>)
        ELSE IF target # 0
        THEN [tasks |-> remove(c.tasks, c.tasks[target]),
              file |-> save_data(remove(c.tasks, c.tasks[target])),
              reply |-> Reply("delete", "deleted", user_id, <<>>, <<c.tasks[target]>>,
                              FALSE, TRUE)]
        ELSE [tasks |-> c.tasks, file |-> c.file,
              reply |-> Reply("delete", "NotFound", user_id, <<>>, <<>>, FALSE, c.saved)]

\* Variant: list saves after its sweep.
list_tasks_saving(ts, f, now) ==
    LET c == clean_expired(ts, f, now)
    IN  [tasks |-> c.tasks, file |-> save_data(c.tasks),
         reply |-> Reply("list", IF c.tasks = <<>> THEN "empty" ELSE "listed", "", <<>>,
                         c.tasks, FALSE, TRUE)]

list_tasks(ts, f, now) ==
    LET c == clean_expired(ts, f, now)
    IN  IF key_error(ts) THEN Raised(ts, f, "list", "", <<>>)
        ELSE [tasks |-> c.tasks, file |-> c.file,
              reply |-> Reply("list", IF c.tasks = <<>> THEN "empty" ELSE "listed", "",
                              <<>>, c.tasks, FALSE, c.saved)]

\* Variant: search does not sweep before it answers.
search_task_unswept(ts, f, keyword, now) ==
    [tasks |-> ts, file |-> f,
     reply |-> IF keyword = <<>>
               THEN Reply("search", IF ts = <<>> THEN "empty" ELSE "listed", "",
                          keyword, ts, FALSE, FALSE)
               ELSE Reply("search", "matched", "", keyword,
                          matched_tasks(ts, keyword), FALSE, FALSE)]

\* keyword is what lines 174-179 extract from event.message_str
search_task(ts, f, keyword, now) ==
    LET c == clean_expired(ts, f, now)
    IN  IF key_error(ts) THEN Raised(ts, f, "search", "", keyword)
        ELSE [tasks |-> c.tasks, file |-> c.file,
              reply |-> IF keyword = <<>>
                        THEN Reply("search", IF c.tasks = <<>> THEN "empty" ELSE "listed",
                                   "", keyword, c.tasks, FALSE, c.saved)
                        ELSE Reply("search", "matched", "", keyword,
                                   matched_tasks(c.tasks, keyword), FALSE, c.saved)]

\* The publish_task coroutines that can be in flight at once.
Slots == {"h1", "h2"}

Init ==
    /\ file \in InitFiles
    /\ tasks = load_data(file)
    /\ clock = 0
    /\ reply = Reply("load", "none", "", <<>>, <<>>, FALSE, FALSE)
    /\ lastPublish = [u \in Users |-> -1]
    /\ pending = <<>>

\* The process restarts: __init__ runs load_data again.
Restart ==
    /\ tasks' = load_data(file)
    /\ reply' = Reply("load", "none", "", <<>>, <<>>, FALSE, FALSE)
    /\ UNCHANGED <<file, clock, lastPublish, pending>>

\* The readings of time.time() a handler can make next.
Now == {t \in Times : t >= clock}

Publish ==
    \E s \in Senders, content \in PublishContents, now \in Now, t2 \in Times :
        /\ now <= t2 /\ t2 <= now + 1
        /\ LET r == publish_task(tasks, file, s.id, s.name, content, now, t2)
               done == r.reply.kind = "published"
           IN  /\ tasks' = r.tasks
               /\ file' = r.file
               /\ reply' = r.reply
               /\ clock' = IF done THEN t2 ELSE now
               /\ lastPublish' = IF done THEN [lastPublish EXCEPT ![s.id] = t2]
                                 ELSE lastPublish
               /\ UNCHANGED pending

Delete ==
    \E s \in Senders, now \in Now :
        LET r == delete_task(tasks, file, s.id, now)
        IN  /\ tasks' = r.tasks
            /\ file' = r.file
            /\ reply' = r.reply
            /\ clock' = now
            /\ lastPublish' = IF r.reply.kind = "deleted"
                              THEN [lastPublish EXCEPT ![s.id] = -1]
                              ELSE lastPublish
            /\ UNCHANGED pending

List ==
    \E now \in Now :
        LET r == list_tasks(tasks, file, now)
        IN  /\ tasks' = r.tasks
            /\ file' = r.file
            /\ reply' = r.reply
            /\ clock' = now
            /\ UNCHANGED <<lastPublish, pending>>

Search ==
    \E keyword \in SearchKeywords, now \in Now :
        LET r == search_task(tasks, file, keyword, now)
        IN  /\ tasks' = r.tasks
            /\ file' = r.file
            /\ reply' = r.reply
            /\ clock' = now
            /\ UNCHANGED <<lastPublish, pending>>

Next == Restart \/ Publish \/ Delete \/ List \/ Search

Spec == Init /\ [][Next]_vars

\* The plugin is constructed with nothing to load: no file, or a file that
\* json.load rejects, or an empty list.
InitEmpty == Init /\ tasks = <<>>

SpecEmpty == InitEmpty /\ [][Next]_vars

\* The plugin is constructed over any file, a wrong-shaped one included.
InitLoad ==
    /\ file \in LoadFiles
    /\ tasks = load_data(file)
    /\ clock = 0
    /\ reply = Reply("load", "none", "", <<>>, <<>>, FALSE, FALSE)
    /\ lastPublish = [u \in Users |-> -1]
    /\ pending = <<>>

SpecLoad == InitLoad /\ [][Next]_vars

(***************************************************************************)
(* publish_task as a coroutine.  It is an async generator without await:   *)
(* it gives up control only at its yield statements (src/main.py:95, 125), *)
(* which come after all its work.  The points named here are "filtered"    *)
(* (after line 108, self.tasks assigned, the new task not yet appended)    *)
(* and "yielded" (at the yield).  delete_task, list_tasks and search_task  *)
(* also yield only after their work, and run as the steps above.           *)
(***************************************************************************)
\* Variant: the coroutine also gives up control between filter and append.
publish_suspends_midway == {"filtered", "yielded"}

\* The points at which publish_task gives up control.
publish_suspends == {"yielded"}

Suspended(at, user_id, user_name, content, overwritten) ==
    [at |-> at, user_id |-> user_id, user_name |-> user_name, content |-> content,
     overwritten |-> overwritten]

\* At the yield the coroutine has nothing left to do; its locals are dropped.
AtYield == Suspended("yielded", "", "", <<>>, FALSE)

\* A publish_task coroutine starts and runs to its first suspension point.
PublishStart ==
    \E s \in Senders, content \in PublishContents, now \in Now, t2 \in Times :
        /\ Len(pending) < Cardinality(Slots)
        /\ now <= t2 /\ t2 <= now + 1
        /\ IF content # <<>> /\ ~ key_error(tasks) /\ "filtered" \in publish_suspends
           THEN LET c == clean_expired(tasks, file, now)
                    kept == others_tasks(c.tasks, s.id)
                IN  /\ tasks' = kept
                    /\ file' = c.file
                    /\ reply' = Reply("publish", "suspended", s.id, content, <<>>,
                                      FALSE, c.saved)
                    /\ clock' = now
                    /\ pending' = Append(pending,
                                         Suspended("filtered", s.id, s.name, content,
                                                   Len(kept) < Len(c.tasks)))
                    /\ UNCHANGED lastPublish
           ELSE LET r == publish_task(tasks, file, s.id, s.name, content, now, t2)
                    done == r.reply.kind = "published"
                IN  /\ tasks' = r.tasks
                    /\ file' = r.file
                    /\ reply' = r.reply
                    /\ clock' = IF done THEN t2 ELSE now
                    /\ lastPublish' = IF done THEN [lastPublish EXCEPT ![s.id] = t2]
                                      ELSE lastPublish
                    /\ pending' = Append(pending, AtYield)

\* A suspended publish_task coroutine runs on, to its next suspension point
\* or to its end.
PublishResume ==
    \E h \in 1..Len(pending) :
        IF pending[h].at = "filtered"
        THEN \E t2 \in Now :
                 LET p == pending[h]
                     new_task == Task(p.content, p.user_name, p.user_id, t2)
                 IN  /\ tasks' = Append(tasks, new_task)
                     /\ file' = save_data(Append(tasks, new_task))
                     /\ reply' = Reply("publish", "published", p.user_id, p.content,
                                       <<new_task>>, p.overwritten, TRUE)
                     /\ clock' = t2
                     /\ lastPublish' = [lastPublish EXCEPT ![p.user_id] = t2]
                     /\ pending' = [pending EXCEPT ![h] = AtYield]
        ELSE /\ pending' = SubSeq(pending, 1, h - 1) \o SubSeq(pending, h + 1, Len(pending))
             /\ UNCHANGED <<tasks, file, clock, reply, lastPublish>>

AsyncNext == PublishStart \/ PublishResume \/ Delete \/ List \/ Search

SpecAsync == InitEmpty /\ [][AsyncNext]_vars

TypeOK ==
    /\ clock \in Times
    /\ \A i \in 1..Len(tasks) : tasks[i].publisher_id \in Users

(***************************************************************************)
(* Properties.  In a step formula, reply' names the handler the step ran   *)
(* and clock' is the instant it ran at.                                    *)
(***************************************************************************)
Positions(ts, u) == {i \in 1..Len(ts) : ts[i].publisher_id = u}

Fresh(t, now) == now - t.create_time < 1800

FreshOnes(ts, now) == SelectSeq(ts, LAMBDA t : Fresh(t, now))

Shown == {reply.tasks[i] : i \in 1..Len(reply.tasks)}

\* C1: in every reachable state, whatever file the store was loaded from, the
\* store holds at most one task per publisher_id.
C1_OneTaskPerPublisher ==
    \A u \in Users : Cardinality(Positions(tasks, u)) <= 1

\* C2: right after a successful publish the store holds exactly one task of the
\* publisher, and it carries the content and the creation time of that publish.
C2_PublishOverwrites ==
    reply.kind = "published" =>
        /\ Cardinality(Positions(tasks, reply.user_id)) = 1
        /\ \A i \in Positions(tasks, reply.user_id) :
              /\ tasks[i].content = reply.arg
              /\ tasks[i].create_time = clock
              /\ tasks[i].create_time = lastPublish[reply.user_id]

\* A publish that replaced the sender's earlier task, another publisher's task
\* being in the store.
C2_Witness ==
    /\ reply.kind = "published"
    /\ reply.overwritten
    /\ Len(tasks) = 2

\* C3: every task that list or search returns is younger than the TTL at the
\* time of the call, whatever the history and whatever was loaded at startup.
C3_NoStaleShown ==
    reply.op \in {"list", "search"} =>
        \A i \in 1..Len(reply.tasks) : clock - reply.tasks[i].create_time < 1800

\* A list that showed tasks after its sweep had removed stale ones.
C3_Witness ==
    /\ reply.op = "list"
    /\ reply.saved
    /\ reply.tasks # <<>>

\* C4: at a list at time t2, a task published at t1 by a publisher who has not
\* published again nor deleted it is shown if t2 - t1 < 1800 and is not shown
\* if t2 - t1 >= 1800.
C4_ShownUntilTTL ==
    reply.op = "list" =>
        \A u \in Users :
            lastPublish[u] >= 0 =>
                ((clock - lastPublish[u] < 1800)
                    <=> \E t \in Shown : t.publisher_id = u /\ t.create_time = lastPublish[u])

\* A list that ran exactly 1800 s after one publish and 1799 s after another.
C4_Witness ==
    /\ reply.op = "list"
    /\ \E u \in Users : lastPublish[u] >= 0 /\ clock - lastPublish[u] = 1800
    /\ \E u \in Users : lastPublish[u] >= 0 /\ clock - lastPublish[u] = 1799

\* C5: a delete by a publisher who has an unexpired task returns that task and
\* leaves exactly the unexpired tasks of the other publishers, in their order,
\* so that no task of the caller remains.
C5_DeleteOwnTask ==
    [][\A u \in Users :
          (/\ reply'.op = "delete"
           /\ reply'.user_id = u
           /\ \E i \in Positions(tasks, u) : Fresh(tasks[i], clock'))
          => /\ reply'.kind = "deleted"
             /\ Len(reply'.tasks) = 1
             /\ \E i \in Positions(tasks, u) :
                   tasks[i] = reply'.tasks[1] /\ Fresh(tasks[i], clock')
             /\ Positions(tasks', u) = {}
             /\ tasks' = SelectSeq(tasks, LAMBDA t : t.publisher_id # u /\ Fresh(t, clock'))
      ]_vars

Blank(s) == \A i \in 1..Len(s) : s[i] \in Whitespace

\* k occurs in s as a contiguous run of characters, case and all.
Occurs(k, s) ==
    \E i \in 0..Len(s) :
        /\ i + Len(k) <= Len(s)
        /\ \A j \in 1..Len(k) : s[i + j] = k[j]

\* The caller of a delete step has no unexpired task when the step starts.
NoActiveTask(u) ==
    /\ reply'.op = "delete"
    /\ reply'.user_id = u
    /\ ~ \E i \in Positions(tasks, u) : Fresh(tasks[i], clock')

\* C6 as stated: a delete by a publisher with no active task returns NotFound
\* and leaves the store and the durable file as they were, with no save.
C6_NotFoundChangesNothing ==
    [][\A u \in Users :
          NoActiveTask(u) =>
              /\ reply'.kind = "NotFound"
              /\ tasks' = tasks
              /\ file' = file
              /\ ~ reply'.saved
      ]_vars

\* C6 amended: a delete by a publisher with no active task returns NotFound and
\* removes nothing but the expired tasks; the file is written exactly when the
\* sweep removed a task, and then holds the store that is left.
C6_NotFoundSweepsOnly ==
    [][\A u \in Users :
          NoActiveTask(u) =>
              /\ reply'.kind = "NotFound"
              /\ tasks' = FreshOnes(tasks, clock')
              /\ reply'.saved <=> (tasks' # tasks)
              /\ IF tasks' = tasks THEN file' = file
                 ELSE file'.exists /\ load_data(file') = tasks'
      ]_vars

\* A NotFound whose sweep removed expired tasks and wrote the file.
C6_Witness ==
    /\ reply.kind = "NotFound"
    /\ reply.saved
    /\ tasks # <<>>

\* C7: a publish whose content is empty after trimming signals EmptyContent
\* (and no other publish does), and leaves the store and the file untouched.
C7_EmptyContentAborts ==
    [][reply'.op = "publish" =>
          /\ Blank(reply'.arg) <=> (reply'.kind = "EmptyContent")
          /\ reply'.kind = "EmptyContent" =>
                (tasks' = tasks /\ file' = file /\ ~ reply'.saved)
      ]_vars

\* An empty publish by a sender who has a task, the store holding a task that
\* has expired by then.
C7_Witness ==
    /\ reply.kind = "EmptyContent"
    /\ Positions(tasks, reply.user_id) # {}
    /\ \E i \in 1..Len(tasks) : ~ Fresh(tasks[i], clock)

\* C8: in every state and at every time, a search whose keyword is empty after
\* trimming shows the sequence list shows, is no error, and has list's effect.
C8_EmptySearchIsList ==
    \A now \in Now : \A keyword \in SearchKeywords :
        Blank(keyword) =>
            LET s == search_task(tasks, file, keyword, now)
                l == list_tasks(tasks, file, now)
            IN  /\ s.reply.tasks = l.reply.tasks
                /\ s.reply.kind = l.reply.kind
                /\ s.reply.kind \in {"empty", "listed"}
                /\ s.tasks = l.tasks
                /\ s.file = l.file

\* A search without keyword that showed tasks after sweeping stale ones.
C8_Witness ==
    /\ reply.op = "search"
    /\ reply.arg = <<>>
    /\ reply.saved
    /\ reply.tasks # <<>>

\* C9: a search for a non-empty keyword shows exactly the tasks list shows at
\* that time whose content has the keyword as a substring, in list's order.
C9_SearchIsFilter ==
    (reply.op = "search" /\ reply.arg # <<>>) =>
        reply.tasks = SelectSeq(list_tasks(tasks, file, clock).reply.tasks,
                                LAMBDA t : Occurs(reply.arg, t.content))

\* A search that showed a task with the keyword inside its content and left
\* out another task.
C9_Witness ==
    /\ reply.op = "search"
    /\ reply.arg # <<>>
    /\ Len(reply.tasks) < Len(tasks)
    /\ \E t \in Shown : Head(t.content) # Head(reply.arg)

\* C10: saving any reachable store and loading the file again gives the same
\* sequence of tasks, field by field.
C10_RoundTrip ==
    load_data(save_data(tasks)) = tasks

\* A restart that loaded two tasks of different publishers, one of them
\* published in an earlier run.
C10_Witness ==
    /\ reply.op = "load"
    /\ Len(tasks) = 2
    /\ tasks[1].publisher # tasks[2].publisher
    /\ \E u \in Users : lastPublish[u] >= 0

\* The readings of time.time() a publish can make: now, then t2 for create_time.
PublishTimes == {<<now, t2>> \in Now \X Times : now <= t2 /\ t2 <= now + 1}

\* C11: when a step changed the store, or was a successful publish or delete,
\* or a sweep that removed tasks, the file afterwards holds exactly the store.
C11_FileFollowsStore ==
    [][(reply'.op \in {"publish", "delete", "list", "search"}
          /\ (tasks' # tasks \/ reply'.kind \in {"published", "deleted"} \/ reply'.saved))
        => /\ file'.exists
           /\ file'.text = json_dump(tasks')
           /\ load_data(file') = tasks'
      ]_vars

\* A delete that left another publisher's task, the file holding that store.
C11_Witness ==
    /\ reply.kind = "deleted"
    /\ Len(tasks) = 1
    /\ load_data(file) = tasks

\* C14 as stated: after any publish, delete, list or search at time now, the
\* store holds no task of age 1800 s or more at now.  (clock is the time the
\* handler finished; a successful publish may have read now a second earlier.)
C14_EveryCallSweeps ==
    reply.op \in {"publish", "delete", "list", "search"} =>
        \A i \in 1..Len(tasks) :
            Fresh(tasks[i], IF reply.kind = "published" THEN clock - 1 ELSE clock)

\* C14 amended: the same for every delete, list and search, and for every
\* publish whose content is not empty after trimming; a publish with empty
\* content returns before the sweep and leaves the store as it was.
C14_NonEmptyCallSweeps ==
    \A now \in Now : \A s \in Senders :
        /\ \A pt \in PublishTimes : \A content \in PublishContents :
              LET r == publish_task(tasks, file, s.id, s.name, content, pt[1], pt[2])
              IN  IF Blank(content) THEN r.tasks = tasks /\ r.file = file
                  ELSE \A i \in 1..Len(r.tasks) : Fresh(r.tasks[i], pt[1])
        /\ LET r == delete_task(tasks, file, s.id, now)
           IN  \A i \in 1..Len(r.tasks) : Fresh(r.tasks[i], now)
        /\ LET r == list_tasks(tasks, file, now)
           IN  \A i \in 1..Len(r.tasks) : Fresh(r.tasks[i], now)
        /\ \A keyword \in SearchKeywords :
              LET r == search_task(tasks, file, keyword, now)
              IN  \A i \in 1..Len(r.tasks) : Fresh(r.tasks[i], now)

\* A first publish whose sweep removed the other publisher's expired task.
C14_Witness ==
    /\ reply.kind = "published"
    /\ ~ reply.overwritten
    /\ Len(tasks) = 1
    /\ \E u \in Users \ {reply.user_id} :
          lastPublish[u] >= 0 /\ clock - lastPublish[u] >= 1800

\* C15: a sweep at any time keeps exactly the tasks younger than 1800 s, in
\* their order; it saves exactly when it removed a task, and then the file
\* holds what is left; a second sweep at the same time changes nothing.
C15_SweepExact ==
    \A now \in Now :
        LET c == clean_expired(tasks, file, now)
            again == clean_expired(c.tasks, c.file, now)
        IN  /\ c.tasks = FreshOnes(tasks, now)
            /\ c.saved <=> (c.tasks # tasks)
            /\ IF c.saved THEN c.file.exists /\ c.file.text = json_dump(c.tasks)
               ELSE c.file = file
            /\ again.tasks = c.tasks
            /\ again.file = c.file
            /\ ~ again.saved

\* A search whose sweep removed a task and kept another.
C15_Witness ==
    /\ reply.op = "search"
    /\ reply.arg # <<>>
    /\ reply.saved
    /\ Len(tasks) = 1

\* C16: a list or search step leaves in the store exactly the tasks that are
\* unexpired; if none was expired, store and file are as before and nothing
\* is saved; the file changes only when tasks were removed.
C16_ReadOnly ==
    [][reply'.op \in {"list", "search"} =>
          /\ tasks' = FreshOnes(tasks, clock')
          /\ (tasks' = tasks) => (file' = file /\ ~ reply'.saved)
          /\ (file' # file) => (tasks' # tasks /\ file'.text = json_dump(tasks'))
      ]_vars

\* A search that found two unexpired tasks in the store and saved nothing.
C16_Witness ==
    /\ reply.op = "search"
    /\ ~ reply.saved
    /\ Len(tasks) = 2

\* C17: a publish with non-empty content leaves the unexpired tasks of the
\* other publishers, unmodified and in their order, followed by the new task
\* {content, display name, id, create_time}, create_time being the time read
\* at that moment (the sweep's now, or the next second).
C17_PublishAppends ==
    \A s \in Senders : \A pt \in PublishTimes : \A content \in PublishContents :
        ~ Blank(content) =>
            LET r == publish_task(tasks, file, s.id, s.name, content, pt[1], pt[2])
            IN  r.tasks =
                    Append(SelectSeq(tasks,
                                     LAMBDA t : t.publisher_id # s.id /\ Fresh(t, pt[1])),
                           [content |-> content, publisher |-> s.name,
                            publisher_id |-> s.id, create_time |-> pt[2]])

\* A first publish that went behind another publisher's task.
C17_Witness ==
    /\ reply.kind = "published"
    /\ ~ reply.overwritten
    /\ Len(tasks) = 2
    /\ tasks[2] = reply.tasks[1]
    /\ tasks[1].publisher_id # reply.user_id

\* C18: publish reports overwritten exactly when the store held an unexpired
\* task of the caller at the time of the call.
C18_OverwrittenFlag ==
    \A s \in Senders : \A pt \in PublishTimes : \A content \in PublishContents :
        ~ Blank(content) =>
            LET r == publish_task(tasks, file, s.id, s.name, content, pt[1], pt[2])
            IN  r.reply.overwritten
                    <=> \E i \in Positions(tasks, s.id) : Fresh(tasks[i], pt[1])

\* A publish that replaced the caller's own task, the only one in the store.
C18_Witness ==
    /\ reply.kind = "published"
    /\ reply.overwritten
    /\ Len(tasks) = 1

\* C19: started with an empty store, the store is always in non-decreasing
\* order of create_time, and a sweep at any later time removes a prefix of it:
\* what it keeps is a tail of the sequence.
C19_SortedByTime ==
    /\ \A i \in 1..Len(tasks) : \A j \in i..Len(tasks) :
          tasks[i].create_time <= tasks[j].create_time
    /\ \A now \in Now :
          LET kept == clean_expired(tasks, file, now).tasks
          IN  kept = SubSeq(tasks, Len(tasks) - Len(kept) + 1, Len(tasks))

\* A list whose sweep removed the older of two published tasks and kept the
\* younger one.
C19_Witness ==
    /\ reply.op = "list"
    /\ reply.saved
    /\ Len(tasks) = 1
    /\ \E u \in Users : lastPublish[u] >= 0 /\ clock - lastPublish[u] >= 1800

\* C12: whatever file was loaded, every later handler runs without an error
\* reaching its caller; and a load of a missing file, or of one json.load
\* rejects, gives the empty store.
C12_LoadNeverFails ==
    /\ reply.kind # "KeyError"
    /\ (reply.op = "load" /\ (~ file.exists \/ ~ json_load(file.text).ok))
       => tasks = <<>>

\* The results a whole handler run can have on store ts and file f, when it
\* is the handler named by reply r and finishes at time c.
WholeRuns(ts, f, r, c) ==
    IF r.op = "publish"
    THEN {publish_task(ts, f, s.id, s.name, r.arg, now, c) :
              s \in {x \in Senders : x.id = r.user_id}, now \in {c - 1, c} \cap Times}
    ELSE IF r.op = "delete" THEN {delete_task(ts, f, r.user_id, c)}
    ELSE IF r.op = "list" THEN {list_tasks(ts, f, c)}
    ELSE IF r.op = "search" THEN {search_task(ts, f, r.arg, c)}
    ELSE {}

====
